---- MODULE Spec2Model ----
(***************************************************************************)
(* The merge-and-metrics engine of the forex dashboard.                    *)
(*                                                                         *)
(*   src/streamlit_app.py   the self-contained dashboard script: session   *)
(*                          state, the refresh tick (update_and_display),  *)
(*                          its own update_hourly_with_5m_data and         *)
(*                          calculate_metrics                              *)
(*   src/calculations.py    the library revision of the same functions,    *)
(*                          plus calculate_extended_metrics                *)
(*   src/data_fetcher.py    load_hourly_data / fetch_latest_5m             *)
(*                                                                         *)
(* A DataFrame is a sequence of rows; a row of the hourly frame is a       *)
(* record [index, Open, High, Low, Close], a row of the 5-minute frame a   *)
(* record [index, Close] (the only column of it the code reads).  The      *)
(* Volume column is never read and is left out.  A timestamp is a number   *)
(* of minutes.  A cell or a metric value is a record [k, v]: k is the kind *)
(* of value, v its number.  A close is a whole                             *)
(* number of price units of 0.00001, a percentage a whole number of        *)
(* hundredths of a percent (what round(., 2) keeps).                       *)
(***************************************************************************)
EXTENDS Integers, Sequences, FiniteSets, TLC

VARIABLES hourly_data, hourly_df, df_5m, call, ret

vars == <<hourly_data, hourly_df, df_5m, call, ret>>

----------------------------------------------------------------------------
(* Values *)

Num(x) == [k |-> "num", v |-> x]
\* float('inf'): dropna() keeps it
Inf == [k |-> "inf", v |-> 0]
\* float('nan')
NaN == [k |-> "nan", v |-> 0]
\* a close that float() cannot convert
Malformed == [k |-> "str", v |-> 0]
\* the "N/A" marker
NA == [k |-> "N/A", v |-> 0]
\* Python's None
None == [k |-> "None", v |-> 0]
\* the instrument's display name
Label == [k |-> "label", v |-> 0]

\* float(x) raises ValueError on a non-numeric string
float_raises(x) == x.k = "str"

\* float(x) where it returns
float(x) == x

\* n / d rounded to the nearest integer, ties to even: round(x, 2) of a
\* percentage held in hundredths (d > 0)
round_half_even(n, d) ==
    LET q == n \div d
        r == n % d
    IN  IF 2 * r < d THEN q
        ELSE IF 2 * r > d THEN q + 1
        ELSE IF q % 2 = 0 THEN q ELSE q + 1

\* round(x, 4) of a close held in units of 0.00001; inf stays inf
round_4(x) == IF x.k = "num" THEN Num(round_half_even(x.v, 10) * 10) ELSE x

\* t.strftime("%Y-%m-%d %H:%M"): the timestamp to the minute
strftime(t) == [k |-> "time", v |-> t]


----------------------------------------------------------------------------
(* DataFrame helpers *)

Last(df) == df[Len(df)]

\* the rows of df at the positions in I, in order
Rows(df, I) ==
    LET pos == [m \in 1..Cardinality(I) |->
                  CHOOSE i \in I : Cardinality({j \in I : j <= i}) = m]
    IN  [m \in 1..Cardinality(I) |-> df[pos[m]]]

\* a plausible slip: duplicated() taken over the Close column, not the index
drop_duplicates_on_close(df) ==
    Rows(df, {i \in 1..Len(df) :
                \A j \in (i + 1)..Len(df) : df[j].Close # df[i].Close})

\* df[~df.index.duplicated(keep="last")]
drop_duplicates(df) ==
    Rows(df, {i \in 1..Len(df) :
                \A j \in (i + 1)..Len(df) : df[j].index # df[i].index})

\* df.sort_index(): ascending by index
sort_index(df) ==
    LET rank(i) == Cardinality({j \in 1..Len(df) :
                       \/ df[j].index < df[i].index
                       \/ df[j].index = df[i].index /\ j < i}) + 1
    IN  [m \in 1..Len(df) |-> df[CHOOSE i \in 1..Len(df) : rank(i) = m]]

\* t.replace(minute=0, second=0, microsecond=0)
replace_minute_0(t) == (t \div 60) * 60

\* what a call of a frame-returning function ends in
Returned(df) == [raised |-> FALSE, df |-> df]
Raised == [raised |-> TRUE, df |-> <<>>]

\* pd.DataFrame({'Open': [c], 'High': [c], 'Low': [c], 'Close': [c]}, index=[t])
new_row(t, c) == [index |-> t, Open |-> c, High |-> c, Low |-> c, Close |-> c]

----------------------------------------------------------------------------
(* update_hourly_with_5m_data, src/calculations.py *)

\* a plausible slip: the new hour overwrites the last row instead of being
\* appended
update_hourly_with_5m_data_overwrite(hourly, fine) ==
    IF fine = <<>> \/ hourly = <<>> THEN Returned(hourly)
    ELSE IF float_raises(Last(fine).Close) THEN Raised
    ELSE Returned([hourly EXCEPT ![Len(hourly)] =
                      new_row(replace_minute_0(Last(fine).index),
                              float(Last(fine).Close))])

\* a plausible slip: the hour of the last row counts as a new hour
update_hourly_with_5m_data_from_last_hour(hourly, fine) ==
    IF fine = <<>> \/ hourly = <<>> THEN Returned(hourly)
    ELSE IF float_raises(Last(fine).Close) THEN Raised
    ELSE IF replace_minute_0(Last(fine).index) >= Last(hourly).index
    THEN Returned(Append(hourly, new_row(replace_minute_0(Last(fine).index),
                                         float(Last(fine).Close))))
    ELSE Returned([i \in 1..Len(hourly) |->
            IF hourly[i].index = Last(hourly).index
            THEN [hourly[i] EXCEPT !.Close = float(Last(fine).Close)]
            ELSE hourly[i]])

update_hourly_with_5m_data(hourly, fine) ==
    IF fine = <<>> \/ hourly = <<>> THEN Returned(hourly)
    ELSE
      LET latest_5m_time == Last(fine).index
      IN  IF float_raises(Last(fine).Close) THEN Raised
          ELSE
            LET latest_5m_close == float(Last(fine).Close)
                current_hour == replace_minute_0(latest_5m_time)
                last_hourly_time == Last(hourly).index
            IN  IF current_hour > last_hourly_time
                THEN Returned(Append(hourly, new_row(current_hour, latest_5m_close)))
                \* hourly_df.loc[last_hourly_time, 'Close'] = ...: every row
                \* carrying that label is assigned
                ELSE Returned([i \in 1..Len(hourly) |->
                        IF hourly[i].index = last_hourly_time
                        THEN [hourly[i] EXCEPT !.Close = latest_5m_close]
                        ELSE hourly[i]])

----------------------------------------------------------------------------
(* update_hourly_with_5m_data, src/streamlit_app.py *)

app_update_hourly_with_5m_data(hourly, fine) ==
    IF fine = <<>> \/ hourly = <<>> THEN Returned(hourly)
    ELSE
      LET latest_5m_time == Last(fine).index
      IN  IF float_raises(Last(fine).Close) THEN Raised
          ELSE
            LET latest_5m_close == float(Last(fine).Close)
                current_hour == replace_minute_0(latest_5m_time)
                last_hourly_time == Last(hourly).index
                updated ==
                  IF current_hour > last_hourly_time
                  THEN Append(hourly, new_row(current_hour, latest_5m_close))
                  \* hourly_df.iloc[-1, Close] = ...: the last row alone
                  ELSE [hourly EXCEPT ![Len(hourly)].Close = latest_5m_close]
            IN  Returned(drop_duplicates(updated))

----------------------------------------------------------------------------
(* Metric dictionaries: functions from keys to values *)

last_n == 5
REFRESH_INTERVAL == 15

\* the key f"Δ-{i}"
delta_key(i) ==
    CASE i = 1 -> "Delta-1" [] i = 2 -> "Delta-2" [] i = 3 -> "Delta-3"
      [] i = 4 -> "Delta-4" [] i = 5 -> "Delta-5"

\* (datetime.utcnow() + timedelta(seconds=REFRESH_INTERVAL)).strftime(...): a
\* reading of the wall clock
next_update == [k |-> "clock", v |-> REFRESH_INTERVAL]

\* one entry of Series.pct_change() * 100, held in hundredths: closes are >= 0.
\* Nothing between pct_change() and round(., 2) reads the digits beyond.
pct_change(prev, cur) ==
    CASE prev.k = "num" /\ prev.v # 0 /\ cur.k = "num" ->
             Num(round_half_even((cur.v - prev.v) * 10000, prev.v))
      [] prev.k = "num" /\ prev.v # 0 /\ cur.k = "inf" -> Inf
      [] prev.k = "num" /\ prev.v = 0 /\ cur.k = "num" /\ cur.v = 0 -> NaN
      [] prev.k = "num" /\ prev.v = 0 /\ cur.k = "num" /\ cur.v # 0 -> Inf
      [] prev.k = "num" /\ prev.v = 0 /\ cur.k = "inf" -> Inf
      [] prev.k = "inf" /\ cur.k = "num" -> Num(-10000)
      [] OTHER -> NaN

\* hourly_df["Close"].pct_change().dropna() * 100
close_changes_of(hourly) ==
    SelectSeq([i \in 1..(Len(hourly) - 1) |->
                  pct_change(hourly[i].Close, hourly[i + 1].Close)],
              LAMBDA c : c.k # "nan")

\* Series.tail(n)
tail(s, n) == IF Len(s) <= n THEN s ELSE SubSeq(s, Len(s) - n + 1, Len(s))

\* the metrics dict as first built, src/calculations.py
base_metrics(symbol_name) ==
    [key \in {"Instrument", "Latest Close", "First Hourly", "Last Hourly",
              "Last 5m Timestamp", "Next Update"} |->
        CASE key = "Instrument" -> symbol_name
          [] key = "Next Update" -> next_update
          [] OTHER -> NA]

\* calculate_metrics, src/calculations.py
calculate_metrics(symbol_name, hourly_in, fine) ==
    LET metrics == base_metrics(symbol_name)
        hourly == drop_duplicates(hourly_in)
        close_changes == close_changes_of(hourly)
        recent_changes == tail(close_changes, last_n)
        m1 == IF hourly_in # <<>>
              THEN [key \in {delta_key(i) : i \in 1..last_n} |->
                       LET i == CHOOSE i \in 1..last_n : delta_key(i) = key
                       IN  IF i - 1 < Len(recent_changes)
                           THEN recent_changes[Len(recent_changes) - (i - 1)]
                           ELSE NA]
                   @@ ("First Hourly" :> strftime(hourly[1].index))
                   @@ ("Last Hourly" :> strftime(Last(hourly).index))
                   @@ ("Latest Close" :> round_4(float(Last(hourly).Close)))
                   @@ metrics
              ELSE metrics
        m2 == IF fine # <<>>
              THEN ("Last 5m Timestamp" :> strftime(Last(fine).index)) @@ m1
              ELSE m1
    IN  m2

\* calculate_metrics, src/streamlit_app.py
app_calculate_metrics(symbol_name, hourly_in, fine) ==
    LET metrics == base_metrics(symbol_name)
        hourly == drop_duplicates(hourly_in)
        close_changes == close_changes_of(hourly)
        recent_changes ==
            IF Len(close_changes) >= last_n
            THEN SubSeq(close_changes, Len(close_changes) - last_n + 1,
                        Len(close_changes))
            ELSE close_changes
        m1 == IF hourly_in # <<>>
              THEN [key \in {delta_key(i) : i \in 1..last_n} |->
                       LET i == CHOOSE i \in 1..last_n : delta_key(i) = key
                       IN  IF i - 1 < Len(recent_changes)
                           THEN recent_changes[Len(recent_changes) - (i - 1)]
                           ELSE NA]
                   @@ ("First Hourly" :> strftime(hourly[1].index))
                   @@ ("Last Hourly" :> strftime(Last(hourly).index))
                   @@ ("Latest Close" :> round_4(float(Last(hourly).Close)))
                   @@ metrics
              ELSE metrics
        m2 == IF fine # <<>>
              THEN ("Last 5m Timestamp" :> strftime(Last(fine).index)) @@ m1
              ELSE m1
    IN  m2

----------------------------------------------------------------------------
(* calculate_extended_metrics, src/calculations.py *)

\* the offsets calc_pct_diff is called with, and the keys they are stored at
lookback_offsets == {1, 6, 13, 100, 200}

lookback_key(offset_hours) ==
    CASE offset_hours = 1 -> "Delta-1"
      [] offset_hours = 6 -> "Pct Diff 6h"
      [] offset_hours = 13 -> "Pct Diff 13h"
      [] offset_hours = 100 -> "Pct Diff 100h"
      [] offset_hours = 200 -> "Pct Diff 200h"

\* a plausible slip: side='right', the insertion point after equal entries
searchsorted_right(hourly, target_time) ==
    Cardinality({i \in 1..Len(hourly) : hourly[i].index <= target_time})

\* hourly_df.index.searchsorted(target_time), side='left', on a sorted index
searchsorted(hourly, target_time) ==
    Cardinality({i \in 1..Len(hourly) : hourly[i].index < target_time})

\* round(((latest_close_val - past_close) / past_close) * 100, 2) in floating
\* point, past_close neither 0 nor nan; TypeError when latest_close_val is None
pct_diff(latest_close_val, past_close) ==
    CASE latest_close_val = None -> [k |-> "TypeError", v |-> 0]
      [] past_close.k = "inf" -> NaN
      [] latest_close_val.k = "inf" -> Inf
      [] OTHER -> Num(round_half_even(
                      (latest_close_val.v - past_close.v) * 10000, past_close.v))

\* the closure calc_pct_diff over hourly_df, last_hourly_time, latest_close_val
calc_pct_diff(hourly, last_hourly_time, latest_close_val, offset_hours) ==
    LET target_time == last_hourly_time - 60 * offset_hours
        idx == searchsorted(hourly, target_time)
    IN  IF idx = 0 THEN NA
        ELSE IF float_raises(hourly[idx].Close) THEN NA
        ELSE LET past_close == float(hourly[idx].Close)
             IN  IF past_close = Num(0) \/ past_close.k = "nan" THEN NA
                 ELSE pct_diff(latest_close_val, past_close)

\* the frame the metrics read: duplicates removed, sorted by index
extended_frame(hourly_in) == sort_index(drop_duplicates(hourly_in))

\* latest_hourly_close after its try/except
latest_hourly_close_of(hourly) ==
    IF float_raises(Last(hourly).Close) THEN None ELSE float(Last(hourly).Close)

\* latest_close_val when calc_pct_diff is defined: the 5m close if float()
\* took it, else latest_hourly_close
latest_close_val_of(hourly, fine) ==
    IF fine # <<>> /\ ~float_raises(Last(fine).Close)
    THEN float(Last(fine).Close)
    ELSE latest_hourly_close_of(hourly)

extended_defaults(symbol_name) ==
    [key \in {"Instrument", "Latest Close", "Latest Hourly Close",
              "Last Hourly Timestamp", "Latest 5m Timestamp", "Delta-1",
              "Pct Diff 6h", "Pct Diff 13h", "Pct Diff 100h", "Pct Diff 200h"} |->
        IF key = "Instrument" THEN symbol_name ELSE NA]

\* the dict calculate_extended_metrics builds; a "TypeError" entry stands for
\* the exception leaving calc_pct_diff
calculate_extended_metrics(symbol_name, hourly_in, fine) ==
    LET extended == extended_defaults(symbol_name)
    IN  IF hourly_in = <<>> THEN extended
        ELSE
          LET hourly == extended_frame(hourly_in)
              last_hourly_time == Last(hourly).index
              latest_hourly_close == latest_hourly_close_of(hourly)
              fine_taken == fine # <<>> /\ ~float_raises(Last(fine).Close)
              latest_close_val == latest_close_val_of(hourly, fine)
              e1 == ("Latest Hourly Close" :>
                        IF latest_hourly_close # None
                        THEN round_4(latest_hourly_close) ELSE NA)
                    @@ extended
              e2 == IF fine_taken
                    THEN ("Latest Close" :> round_4(float(Last(fine).Close)))
                         @@ ("Last Hourly Timestamp" :> strftime(Last(fine).index))
                         @@ ("Latest 5m Timestamp" :> strftime(Last(fine).index))
                         @@ e1
                    ELSE ("Latest Close" :>
                             IF latest_close_val # None
                             THEN round_4(latest_close_val) ELSE NA)
                         @@ ("Last Hourly Timestamp" :> strftime(last_hourly_time))
                         @@ e1
          IN  [key \in {lookback_key(h) : h \in lookback_offsets} |->
                  LET h == CHOOSE h \in lookback_offsets : lookback_key(h) = key
                  IN  calc_pct_diff(hourly, last_hourly_time, latest_close_val, h)]
              @@ e2

\* whether the call raises instead of returning the dict
extended_raises(metrics) ==
    \E key \in DOMAIN metrics : metrics[key].k = "TypeError"

----------------------------------------------------------------------------
(* What the acquisition functions hand over *)

\* rows of a loaded hourly frame: at most MaxLen rows, hours 0..MaxHour
MaxLen == 3
MaxHour == 2

LoadedCloses == {Num(0), Num(1000)}

HourlyRows ==
    [index : {60 * h : h \in 0..MaxHour}, Open : {Num(1020)},
     High : {Num(1250)}, Low : {Num(0)}, Close : LoadedCloses]

\* a frame of hourly rows with the given closes at the given hours
hourly_frame(hours, closes) ==
    [i \in 1..Len(hours) |->
        [index |-> 60 * hours[i], Open |-> Num(1020), High |-> Num(1250),
         Low |-> Num(0), Close |-> Num(closes[i])]]

\* closes 0.01000, 0.01100, 0.00990, ...: changes +10%, -10%, 0%, +11.11%, +10%
StepChangeFrame ==
    hourly_frame(<<0, 1, 2, 3, 4, 5>>, <<1000, 1100, 990, 990, 1100, 1210>>)

\* four consecutive hours T-3..T
LookbackFrame == hourly_frame(<<0, 1, 2, 3>>, <<1000, 1050, 1100, 1150>>)

\* a frame that spans every lookback offset, with rows exactly 13 h and 6 h
\* before the last one
LongFrame == hourly_frame(<<0, 188, 195, 201>>, <<1000, 1100, 1200, 1250>>)

\* a frame whose oldest close is infinite
InfFrame ==
    [hourly_frame(<<0, 1, 2>>, <<1000, 1000, 1100>>) EXCEPT ![1].Close = Inf]

\* load_hourly_data(symbol): yfinance's rows in index order, possibly with a
\* timestamp repeated, NaN rows dropped; empty on error
LoadedFrames ==
    {f \in UNION {[1..n -> HourlyRows] : n \in 0..MaxLen} :
        \A i \in 1..(Len(f) - 1) : f[i].index <= f[i + 1].index}
    \cup {StepChangeFrame, LookbackFrame, LongFrame, InfFrame}

\* the rows a fetched 5-minute frame can end in: a time in the last loaded
\* hour or the next one, a close that is a number or malformed
LastFineRows ==
    [index : {60 * h + m : h \in MaxHour..(MaxHour + 1), m \in {0, 55}},
     Close : {Num(1104), Malformed}]

\* the row a two-row frame begins with
FirstFineRow == [index |-> 60 * MaxHour, Close |-> Num(900)]

\* fetch_latest_5m(symbol): rows in increasing time; empty on error
FetchedFrames ==
    {<<>>} \cup {<<r>> : r \in LastFineRows}
    \cup {<<FirstFineRow, r>> :
             r \in {x \in LastFineRows : x.index > FirstFineRow.index}}

----------------------------------------------------------------------------
(* The state *)

\* hourly_data  st.session_state.hourly_data[name], one instrument
\* hourly_df    the hourly frame the last call was given
\* df_5m        the 5-minute frame the last call was given
\* call         the function last called
\* ret          what it ended in: raised, the frame returned, the dict returned

no_metrics == [key \in {} |-> NA]

Init ==
    /\ hourly_data \in LoadedFrames
    /\ hourly_df = hourly_data
    /\ df_5m = <<>>
    /\ call = "load_hourly_data"
    /\ ret = [raised |-> FALSE, df |-> hourly_data, metrics |-> no_metrics]

\* The session is at rest after the load and after each pass of
\* update_and_display.  A call of a library function is made on the frame the
\* session holds at rest and leaves the session as it was: what follows it is
\* what follows the state it was made in, or the same merge made once more on
\* its own result.
at_rest == call \in {"load_hourly_data", "update_and_display"}

\* one instrument's pass through update_and_display, src/streamlit_app.py
update_and_display ==
    /\ at_rest
    /\ \E fine \in FetchedFrames :
      LET merged == IF fine # <<>>
                    THEN app_update_hourly_with_5m_data(hourly_data, fine)
                    ELSE Returned(hourly_data)
      IN  /\ hourly_df' = hourly_data
          /\ df_5m' = fine
          /\ call' = "update_and_display"
          /\ hourly_data' = IF merged.raised THEN hourly_data ELSE merged.df
          /\ ret' = IF merged.raised
                    THEN [raised |-> TRUE, df |-> <<>>, metrics |-> no_metrics]
                    ELSE [raised |-> FALSE, df |-> merged.df,
                          metrics |-> app_calculate_metrics(Label, merged.df, fine)]

\* update_hourly_with_5m_data of src/calculations.py on the held frame
call_update_hourly_with_5m_data ==
    /\ at_rest
    /\ \E fine \in FetchedFrames :
      LET result == update_hourly_with_5m_data(hourly_data, fine)
      IN  /\ hourly_df' = hourly_data
          /\ df_5m' = fine
          /\ call' = "update_hourly_with_5m_data"
          /\ ret' = [raised |-> result.raised, df |-> result.df,
                     metrics |-> no_metrics]
          /\ UNCHANGED hourly_data

\* update_hourly_with_5m_data of src/streamlit_app.py on the held frame
call_app_update_hourly_with_5m_data ==
    /\ at_rest
    /\ \E fine \in FetchedFrames :
      LET result == app_update_hourly_with_5m_data(hourly_data, fine)
      IN  /\ hourly_df' = hourly_data
          /\ df_5m' = fine
          /\ call' = "app_update_hourly_with_5m_data"
          /\ ret' = [raised |-> result.raised, df |-> result.df,
                     metrics |-> no_metrics]
          /\ UNCHANGED hourly_data

call_calculate_metrics ==
    /\ at_rest
    /\ \E fine \in FetchedFrames :
      /\ hourly_df' = hourly_data
      /\ df_5m' = fine
      /\ call' = "calculate_metrics"
      /\ ret' = [raised |-> FALSE, df |-> hourly_data,
                 metrics |-> calculate_metrics(Label, hourly_data, fine)]
      /\ UNCHANGED hourly_data

call_calculate_extended_metrics ==
    /\ at_rest
    /\ \E fine \in FetchedFrames :
      LET extended == calculate_extended_metrics(Label, hourly_data, fine)
      IN  /\ hourly_df' = hourly_data
          /\ df_5m' = fine
          /\ call' = "calculate_extended_metrics"
          /\ ret' = IF extended_raises(extended)
                    THEN [raised |-> TRUE, df |-> <<>>, metrics |-> no_metrics]
                    ELSE [raised |-> FALSE, df |-> hourly_data, metrics |-> extended]
          /\ UNCHANGED hourly_data

\* update_hourly_with_5m_data of src/calculations.py once more, on the frame
\* it returned and the 5-minute frame it was given
repeat_update_hourly_with_5m_data ==
    /\ call = "update_hourly_with_5m_data"
    /\ ~ret.raised
    /\ LET result == update_hourly_with_5m_data(ret.df, df_5m)
       IN  /\ hourly_df' = ret.df
           /\ call' = "update_hourly_with_5m_data, repeated"
           /\ ret' = [raised |-> result.raised, df |-> result.df,
                      metrics |-> no_metrics]
           /\ UNCHANGED <<hourly_data, df_5m>>

\* update_hourly_with_5m_data of src/streamlit_app.py once more, on the frame
\* it returned and the 5-minute frame it was given
repeat_app_update_hourly_with_5m_data ==
    /\ call = "app_update_hourly_with_5m_data"
    /\ ~ret.raised
    /\ LET result == app_update_hourly_with_5m_data(ret.df, df_5m)
       IN  /\ hourly_df' = ret.df
           /\ call' = "app_update_hourly_with_5m_data, repeated"
           /\ ret' = [raised |-> result.raised, df |-> result.df,
                      metrics |-> no_metrics]
           /\ UNCHANGED <<hourly_data, df_5m>>

Next ==
    \/ update_and_display
    \/ call_update_hourly_with_5m_data
    \/ call_app_update_hourly_with_5m_data
    \/ call_calculate_metrics
    \/ call_calculate_extended_metrics
    \/ repeat_update_hourly_with_5m_data
    \/ repeat_app_update_hourly_with_5m_data

Spec == Init /\ [][Next]_vars

----------------------------------------------------------------------------
(* Vocabulary of the properties *)

\* a call of either update_hourly_with_5m_data has ended; update_and_display
\* makes one when the fetched frame is not empty
merge_called ==
    \/ call \in {"update_hourly_with_5m_data", "app_update_hourly_with_5m_data"}
    \/ call = "update_and_display" /\ df_5m # <<>>

timestamps_unique(df) ==
    \A i, j \in 1..Len(df) : df[i].index = df[j].index => i = j

\* the position of the row of df written last at timestamp t
last_position(df, t) ==
    CHOOSE i \in 1..Len(df) :
        /\ df[i].index = t
        /\ \A j \in 1..Len(df) : df[j].index = t => j <= i

\* the row of df written last at timestamp t
last_written(df, t) == df[last_position(df, t)]

\* kept is df without the rows that a later row of the same timestamp
\* supersedes
is_without_superseded(kept, df) ==
    /\ timestamps_unique(kept)
    /\ {kept[i].index : i \in 1..Len(kept)} = {df[i].index : i \in 1..Len(df)}
    /\ \A i \in 1..Len(kept) : kept[i] = last_written(df, kept[i].index)
    /\ \A i, j \in 1..Len(kept) :
          i < j => last_position(df, kept[i].index) < last_position(df, kept[j].index)

\* the hour the last fetched row falls in
hour_bucket == 60 * (Last(df_5m).index \div 60)

\* a merge was given two non-empty frames and returned
merge_returned ==
    merge_called /\ hourly_df # <<>> /\ df_5m # <<>> /\ ~ret.raised

new_bucket_case == merge_returned /\ hour_bucket > Last(hourly_df).index

same_bucket_case == merge_returned /\ hour_bucket <= Last(hourly_df).index

\* the candle the new-bucket case appends
synthetic_candle ==
    [index |-> hour_bucket, Open |-> Last(df_5m).Close, High |-> Last(df_5m).Close,
     Low |-> Last(df_5m).Close, Close |-> Last(df_5m).Close]

----------------------------------------------------------------------------
(* C1 *)

\* C1: the frame a merge returns for a non-empty fetched frame, whatever the
\* hourly frame it was given, has no two rows with the same timestamp, and
\* so has the frame the session holds after update_and_display merged.
C1_MergedUnique ==
    (merge_called /\ df_5m # <<>> /\ ~ret.raised) =>
        /\ timestamps_unique(ret.df)
        /\ call = "update_and_display" => timestamps_unique(hourly_data)

----------------------------------------------------------------------------
(* C2 *)

\* C2 as claimed: for any non-empty hourly frame, the frame a merge returns
\* has as many rows or one more.
C2_LengthAnyFrame ==
    (merge_called /\ hourly_df # <<>> /\ ~ret.raised) =>
        Len(ret.df) \in {Len(hourly_df), Len(hourly_df) + 1}

\* C2 amended: for any non-empty hourly frame whose timestamps are unique,
\* the frame a merge returns has as many rows or one more.
C2_LengthUniqueFrame ==
    (merge_called /\ hourly_df # <<>> /\ ~ret.raised
        /\ timestamps_unique(hourly_df)) =>
        Len(ret.df) \in {Len(hourly_df), Len(hourly_df) + 1}

\* a merge of the dashboard grew a frame of unique timestamps by one row
C2_Witness ==
    /\ call = "update_and_display" /\ df_5m # <<>> /\ ~ret.raised
    /\ Len(hourly_df) >= 2 /\ timestamps_unique(hourly_df)
    /\ Len(ret.df) = Len(hourly_df) + 1

----------------------------------------------------------------------------
(* C3 *)

\* C3 as claimed: in the new-bucket case the returned frame is the given
\* frame, every row of it unchanged, with the synthetic candle appended.
C3_AppendsToGivenFrame ==
    new_bucket_case => ret.df = Append(hourly_df, synthetic_candle)

\* C3 amended: in the new-bucket case the returned frame ends in the one
\* synthetic candle (open = high = low = close = the last fetched close, at the
\* hour bucket), and before it holds the rows of the given frame unchanged and
\* in order, the previous last row among them; the dashboard's merge leaves
\* out the rows a later row of the same timestamp supersedes.
C3_AppendsSyntheticCandle ==
    new_bucket_case =>
        LET front == SubSeq(ret.df, 1, Len(ret.df) - 1)
        IN  /\ Len(ret.df) >= 2
            /\ Last(ret.df) = synthetic_candle
            /\ Last(front) = Last(hourly_df)
            /\ \/ front = hourly_df
               \/ /\ call # "update_hourly_with_5m_data"
                  /\ is_without_superseded(front, hourly_df)

\* a new hour was appended to a frame of at least two rows
C3_Witness ==
    /\ new_bucket_case
    /\ Len(hourly_df) >= 2
    /\ Last(ret.df).index > Last(hourly_df).index
    /\ Last(ret.df).Open = Num(1104)

----------------------------------------------------------------------------
(* C4 *)

\* C4: in the same-bucket case the returned frame is the given frame with the
\* close of its last row set to the last fetched close and nothing else
\* changed: every other row of it is a row of the given frame (the rows that
\* a later row of the same timestamp supersedes may be gone), and the set of
\* timestamps is the same.
C4_OnlyLastCloseChanges ==
    same_bucket_case =>
        LET front == SubSeq(ret.df, 1, Len(ret.df) - 1)
            given == SubSeq(hourly_df, 1, Len(hourly_df) - 1)
        IN  /\ Len(ret.df) >= 1
            /\ Last(ret.df) = [Last(hourly_df) EXCEPT !.Close = Last(df_5m).Close]
            /\ \A i \in 1..Len(front) : \E j \in 1..Len(given) : front[i] = given[j]
            /\ {ret.df[i].index : i \in 1..Len(ret.df)}
                 = {hourly_df[i].index : i \in 1..Len(hourly_df)}

----------------------------------------------------------------------------
(* C5 *)

\* the timestamps of the hourly frame strictly before the target of offset h
prior_times(h) ==
    {hourly_df[i].index : i \in 1..Len(hourly_df)}
    \cap {t \in 0..(Last(hourly_df).index - 60 * h - 1) : TRUE}

\* the candle the lookback of offset h is to use: the last one strictly before
\* last timestamp - h hours
prior_candle(h) ==
    last_written(hourly_df,
                 CHOOSE t \in prior_times(h) : \A u \in prior_times(h) : u <= t)

\* the price the lookback differences are taken from
reference_close == latest_close_val_of(extended_frame(hourly_df), df_5m)

\* what the lookback field of offset h is to hold
lookback_expected(h) ==
    IF prior_times(h) = {} THEN NA
    ELSE IF prior_candle(h).Close = Num(0) THEN NA
    ELSE pct_diff(reference_close, prior_candle(h).Close)

extended_returned ==
    call = "calculate_extended_metrics" /\ ~ret.raised /\ hourly_df # <<>>

\* C5: for every lookback offset, the field calculate_extended_metrics
\* reports is taken from the last candle strictly before last timestamp - h
\* hours (a candle exactly there is not used) and is N/A when there is none;
\* so is calc_pct_diff at offset 2, which gives 15.0 for the closes
\* [100, 105, 110, 115] at four consecutive hours.
C5_ClosestPriorCandle ==
    extended_returned =>
        /\ \A h \in lookback_offsets :
              ret.metrics[lookback_key(h)] = lookback_expected(h)
        /\ calc_pct_diff(extended_frame(hourly_df), Last(hourly_df).index,
                         reference_close, 2) = lookback_expected(2)
        /\ (hourly_df = LookbackFrame /\ df_5m = <<>>) =>
              calc_pct_diff(extended_frame(hourly_df), Last(hourly_df).index,
                            reference_close, 2) = Num(1500)

\* a lookback found a candle exactly at its target time and reported the
\* difference to the candle before it
C5_Witness ==
    /\ extended_returned
    /\ \E h \in lookback_offsets :
          /\ \E i \in 1..Len(hourly_df) :
                hourly_df[i].index = Last(hourly_df).index - 60 * h
          /\ prior_times(h) # {}
          /\ ret.metrics[lookback_key(h)].k = "num"
          /\ prior_candle(h).Close # last_written(hourly_df,
                                        Last(hourly_df).index - 60 * h).Close

----------------------------------------------------------------------------
(* C6 *)

\* C6: for a frame with n changes between consecutive closes (duplicates
\* removed), calculate_metrics reports under each key Delta-k, k in 1..5, the
\* k-th most recent change when k <= n and N/A when k > n, the key being
\* present in both cases.
C6_StepChanges ==
    (call \in {"calculate_metrics", "update_and_display"} /\ ~ret.raised) =>
        LET frame == IF call = "calculate_metrics" THEN hourly_df ELSE ret.df
            changes == close_changes_of(drop_duplicates(frame))
            n == Len(changes)
        IN  \A k \in 1..last_n :
              /\ delta_key(k) \in DOMAIN ret.metrics
              /\ ret.metrics[delta_key(k)] =
                    IF k <= n THEN changes[n - k + 1] ELSE NA

----------------------------------------------------------------------------
(* C7 *)

\* C7: latest close is the close of the last fetched row whenever the fetched
\* frame is not empty, whether or not the hourly frame is, else the last hourly
\* close, else N/A; and the last 5-minute timestamp is N/A only when the
\* fetched frame is empty.  (Read of a fetched close that is a number.)
C7_LatestClose ==
    (call = "calculate_extended_metrics" /\ ~ret.raised) =>
        /\ (df_5m # <<>> /\ ~float_raises(Last(df_5m).Close)) =>
              /\ ret.metrics["Latest Close"] = round_4(Last(df_5m).Close)
              /\ ret.metrics["Latest 5m Timestamp"] # NA
        /\ (df_5m = <<>> /\ hourly_df # <<>>) =>
              ret.metrics["Latest Close"] = round_4(Last(hourly_df).Close)
        /\ (df_5m = <<>> /\ hourly_df = <<>>) =>
              ret.metrics["Latest Close"] = NA
        /\ df_5m = <<>> => ret.metrics["Latest 5m Timestamp"] = NA

----------------------------------------------------------------------------
(* C8 *)

\* C8: calculate_extended_metrics does not raise, and for every lookback
\* offset the field is N/A whenever the hourly frame is empty, no candle lies
\* strictly before the target time, or the close of the candle found is zero
\* or not finite.
C8_LookbackUnavailable ==
    call = "calculate_extended_metrics" =>
        /\ ~ret.raised
        /\ \A h \in lookback_offsets :
              (\/ hourly_df = <<>>
               \/ prior_times(h) = {}
               \/ prior_candle(h).Close.k \in {"inf", "nan"}
               \/ prior_candle(h).Close = Num(0))
              => ret.metrics[lookback_key(h)] = NA

----------------------------------------------------------------------------
(* C9 *)

\* C9: a merge given an empty fetched frame returns the hourly frame it was
\* given, empty or not, and does not raise; the metrics of two empty frames
\* are returned without raising, every metric field is present in them and
\* every one is N/A.
C9_EmptyInputs ==
    /\ (call \in {"update_hourly_with_5m_data", "app_update_hourly_with_5m_data"}
          /\ df_5m = <<>>) =>
          ~ret.raised /\ ret.df = hourly_df
    /\ (call \in {"calculate_metrics", "calculate_extended_metrics",
                  "update_and_display"}
          /\ hourly_df = <<>> /\ df_5m = <<>>) =>
          /\ ~ret.raised
          /\ \A key \in DOMAIN ret.metrics \ {"Instrument", "Next Update"} :
                ret.metrics[key] = NA
          /\ call = "calculate_extended_metrics" =>
                {lookback_key(h) : h \in lookback_offsets}
                  \cup {"Latest Close", "Last Hourly Timestamp",
                        "Latest 5m Timestamp"} \subseteq DOMAIN ret.metrics
          /\ call # "calculate_extended_metrics" =>
                {delta_key(k) : k \in 1..last_n}
                  \cup {"Latest Close", "First Hourly", "Last Hourly",
                        "Last 5m Timestamp"} \subseteq DOMAIN ret.metrics

----------------------------------------------------------------------------
(* C10 *)

\* C10: a merge whose last fetched close is malformed does not raise and
\* returns the hourly frame it was given; the pass of update_and_display goes
\* on and the session holds the frame it held.
C10_MalformedClose ==
    (merge_called /\ hourly_df # <<>> /\ df_5m # <<>>
        /\ Last(df_5m).Close = Malformed) =>
        /\ ~ret.raised
        /\ ret.df = hourly_df
        /\ hourly_data = hourly_df

----------------------------------------------------------------------------
(* C11 *)

\* either update_hourly_with_5m_data was made a second time, on the frame its
\* first call returned and the same 5-minute frame; hourly_data is the frame
\* the first call was given, hourly_df the frame it returned
merge_repeated ==
    call \in {"update_hourly_with_5m_data, repeated",
              "app_update_hourly_with_5m_data, repeated"}

\* C11: for every non-empty hourly frame and every fetched frame on which a
\* merge returns, the same merge made again on its result and the same
\* fetched frame returns that result unchanged, row for row, and does not
\* raise -- also when the first call appended the candle of a new hour.
C11_MergeIdempotent ==
    (merge_repeated /\ hourly_data # <<>>) =>
        /\ ~ret.raised
        /\ ret.df = hourly_df

\* the first call appended the candle of a new hour to a frame of at least
\* two rows, and the second call was made on the frame so grown
C11_Witness ==
    /\ merge_repeated
    /\ Len(hourly_data) >= 2
    /\ df_5m # <<>>
    /\ hour_bucket > Last(hourly_data).index
    /\ hourly_df = Append(hourly_data, synthetic_candle)
    /\ ~ret.raised

====
